---- MODULE Spec2Model ----
(***************************************************************************)
(* PerformanceTestRunner of performance-test.js as a state machine.        *)
(*                                                                         *)
(* Sizes in KB are numbers with two decimals (Math.round(x * 100) / 100);  *)
(* they are kept as integers counting hundredths of a KB, so that every    *)
(* comparison and sum below is exact.  A file name of the assets directory *)
(* is a sequence of one-character strings, so that path.extname and        *)
(* toLowerCase are computed and not looked up.  A JavaScript object used   *)
(* as a dictionary (fileAnalysis, assetDetails) is the sequence of its own *)
(* enumerable properties in enumeration order.  An empty object {} is the  *)
(* empty sequence and an assigned metrics record r is <<r>>.               *)
(***************************************************************************)
EXTENDS Integers, Sequences, FiniteSets, TLC

VARIABLES
    fs,               \* the working directory the runner reads (never written)
    pc,               \* position of the caller / of run()
    fileAnalysis,     \* this.results.fileAnalysis
    cssAnalysis,      \* this.results.cssAnalysis
    jsAnalysis,       \* this.results.jsAnalysis
    assetAnalysis,    \* this.results.assetAnalysis
    recommendations,  \* this.results.recommendations
    console,          \* what the last generateReport printed (score, band, list)
    report,           \* performance-report.json as last written, <<>> if never
    exitCode,         \* process exit code, <<>> while the process lives
    runs,             \* number of run() invocations on this runner
    failed,           \* <<the step of run() that threw>>, <<>> if none did
    history,          \* (score, recommendations) of each completed run, in order
    call,             \* a direct call of a size classifier: its arguments
    ret               \* the value that call returned, <<>> before it returns

vars == <<fs, pc, fileAnalysis, cssAnalysis, jsAnalysis, assetAnalysis,
          recommendations, console, report, exitCode, failed, runs, history, call, ret>>

----
(* Bounds of the model *)
MaxAssets == 2
MaxRuns == 2
MaxRecs == 7
Slack == 1

----
(* Values of the program *)

\* '✅ 良好', '⚠️ 注意', '❌ 改善必要'
Good == "Good"
Warning == "Warning"
NeedsImprovement == "NeedsImprovement"
Verdicts == {Good, Warning, NeedsImprovement}

\* Math.round(x * 100) / 100: sizes are counted in hundredths of a KB
Hundredths == 100
BytesPerKB == 1024

\* Math.round(num / den) for num >= 0, den > 0 (halves round up)
MathRound(num, den) == (2 * num + den) \div (2 * den)

\* Math.round(stats.size / 1024 * 100) / 100, in hundredths of a KB
SizeKB(bytes) == MathRound(bytes * Hundredths, BytesPerKB)

----
(* JavaScript values and objects, as far as the runner uses them *)

Undefined == [kind |-> "undefined", value |-> 0]
Num(n) == [kind |-> "number", value |-> n]
\* a function or an object: truthy, NaN as a number
Obj == [kind |-> "object", value |-> 0]

\* Properties every object literal inherits from Object.prototype
\* "__proto__"
ProtoKey == <<"_", "_", "p", "r", "o", "t", "o", "_", "_">>

\* constructor, toString, toLocaleString, valueOf, hasOwnProperty,
\* isPrototypeOf, propertyIsEnumerable, __proto__, __defineGetter__,
\* __defineSetter__, __lookupGetter__, __lookupSetter__
ObjectPrototypeKeys ==
    {<<"c", "o", "n", "s", "t", "r", "u", "c", "t", "o", "r">>,
     <<"t", "o", "S", "t", "r", "i", "n", "g">>,
     <<"t", "o", "L", "o", "c", "a", "l", "e", "S", "t", "r", "i", "n", "g">>,
     <<"v", "a", "l", "u", "e", "O", "f">>,
     <<"h", "a", "s", "O", "w", "n", "P", "r", "o", "p", "e", "r", "t", "y">>,
     <<"i", "s", "P", "r", "o", "t", "o", "t", "y", "p", "e", "O", "f">>,
     <<"p", "r", "o", "p", "e", "r", "t", "y", "I", "s", "E", "n", "u", "m", "e", "r", "a", "b", "l", "e">>,
     <<"_", "_", "d", "e", "f", "i", "n", "e", "G", "e", "t", "t", "e", "r", "_", "_">>,
     <<"_", "_", "d", "e", "f", "i", "n", "e", "S", "e", "t", "t", "e", "r", "_", "_">>,
     <<"_", "_", "l", "o", "o", "k", "u", "p", "G", "e", "t", "t", "e", "r", "_", "_">>,
     <<"_", "_", "l", "o", "o", "k", "u", "p", "S", "e", "t", "t", "e", "r", "_", "_">>,
     ProtoKey}

\* limits[key] on an object literal whose own properties are own: an own
\* property, else an inherited one, else undefined
GetProperty(own, key) ==
    IF key \in DOMAIN own THEN Num(own[key])
    ELSE IF key \in ObjectPrototypeKeys THEN Obj
    ELSE Undefined

\* a || d
OrDefault(a, d) ==
    IF a.kind = "undefined" \/ (a.kind = "number" /\ a.value = 0) THEN Num(d) ELSE a

\* sizeKB <= limit * num / den, sizeKB in hundredths; false when limit is NaN
LessEqLimit(size, limit, num, den) ==
    /\ limit.kind = "number"
    /\ size * den <= limit.value * Hundredths * num

----
(* Size classifiers *)

IndexHtml == <<"i", "n", "d", "e", "x", ".", "h", "t", "m", "l">>
StylesCss == <<"s", "t", "y", "l", "e", "s", ".", "c", "s", "s">>
IntegrationTestHtml ==
    <<"i", "n", "t", "e", "g", "r", "a", "t", "i", "o", "n", "-", "t", "e", "s", "t", ".", "h", "t", "m", "l">>
TestResponsiveHtml ==
    <<"t", "e", "s", "t", "-", "r", "e", "s", "p", "o", "n", "s", "i", "v", "e", ".", "h", "t", "m", "l">>

FileLimits ==
    (IndexHtml :> 100) @@ (StylesCss :> 50) @@
    (IntegrationTestHtml :> 150) @@ (TestResponsiveHtml :> 30)

DefaultFileLimit == 50

\* the three-way decision both classifiers end with: limit, then limit * 1.5
Classify(size, limit) ==
    IF LessEqLimit(size, limit, 1, 1) THEN Good
    ELSE IF LessEqLimit(size, limit, 3, 2) THEN Warning
    ELSE NeedsImprovement

evaluateFileSize(filename, size) ==
    Classify(size, OrDefault(GetProperty(FileLimits, filename), DefaultFileLimit))

\* Characters
UpperCase == <<"A","B","C","D","E","F","G","H","I","J","K","L","M",
               "N","O","P","Q","R","S","T","U","V","W","X","Y","Z">>
LowerCase == <<"a","b","c","d","e","f","g","h","i","j","k","l","m",
               "n","o","p","q","r","s","t","u","v","w","x","y","z">>
Digits == <<"0","1","2","3","4","5","6","7","8","9">>

LowerChar(c) ==
    IF \E i \in DOMAIN UpperCase : UpperCase[i] = c
    THEN LowerCase[CHOOSE i \in DOMAIN UpperCase : UpperCase[i] = c]
    ELSE c

\* String.prototype.toLowerCase
ToLowerCase(str) == [i \in DOMAIN str |-> LowerChar(str[i])]

\* index of the last "." of name, 0 if there is none
LastDot(name) ==
    IF \E i \in DOMAIN name : name[i] = "."
    THEN CHOOSE i \in DOMAIN name : name[i] = "." /\ \A j \in DOMAIN name : name[j] = "." => j <= i
    ELSE 0

\* path.extname of a directory entry (a name without separators)
Extname(name) ==
    LET d == LastDot(name) IN
    IF d <= 1 THEN <<>>
    ELSE IF name[1] = "." /\ d = Len(name) /\ d = 2 THEN <<>>
    ELSE SubSeq(name, d, Len(name))

AssetLimits ==
    (<<".", "g", "i", "f">> :> 2000) @@ (<<".", "p", "n", "g">> :> 500) @@
    (<<".", "j", "p", "g">> :> 300) @@ (<<".", "j", "p", "e", "g">> :> 300) @@
    (<<".", "w", "e", "b", "p">> :> 200)

DefaultAssetLimit == 500

evaluateAssetSize(filename, size) ==
    Classify(size, OrDefault(GetProperty(AssetLimits, ToLowerCase(Extname(filename))),
                             DefaultAssetLimit))

----
(* Object literals used as dictionaries: the sequence of own enumerable    *)
(* properties [key, value] in the order Object.keys / Object.entries       *)
(* enumerate them: array-index keys in ascending numeric order first, then *)
(* the other keys in the order they were created.                          *)

IsDigit(c) == \E i \in DOMAIN Digits : Digits[i] = c
DigitValue(c) == (CHOOSE i \in DOMAIN Digits : Digits[i] = c) - 1

\* a < b for canonical numeric strings: by length, then digit by digit
NumericLess(a, b) ==
    \/ Len(a) < Len(b)
    \/ /\ Len(a) = Len(b)
       /\ \E i \in DOMAIN a :
            /\ DigitValue(a[i]) < DigitValue(b[i])
            /\ \A j \in 1..(i - 1) : a[j] = b[j]

\* 2^32 - 2, the largest array index
MaxArrayIndex == <<"4", "2", "9", "4", "9", "6", "7", "2", "9", "4">>

\* a canonical numeric string not above 2^32 - 2
IsArrayIndex(key) ==
    /\ Len(key) >= 1
    /\ \A i \in DOMAIN key : IsDigit(key[i])
    /\ (Len(key) > 1 => key[1] # "0")
    /\ ~NumericLess(MaxArrayIndex, key)

HasOwn(obj, key) == \E i \in DOMAIN obj : obj[i].key = key

\* where a new property named key is enumerated among those of obj
InsertAt(obj, key) ==
    IF IsArrayIndex(key)
    THEN 1 + Cardinality({i \in DOMAIN obj :
                 IsArrayIndex(obj[i].key) /\ NumericLess(obj[i].key, key)})
    ELSE Len(obj) + 1

\* obj[key] = value, for an object value: "__proto__" names the inherited
\* accessor, whose setter replaces the prototype and creates no own property
SetProperty(obj, key, value) ==
    IF key = ProtoKey THEN obj
    ELSE IF HasOwn(obj, key)
    THEN [i \in DOMAIN obj |-> IF obj[i].key = key THEN [key |-> key, value |-> value] ELSE obj[i]]
    ELSE LET k == InsertAt(obj, key) IN
         SubSeq(obj, 1, k - 1) \o <<[key |-> key, value |-> value]>> \o SubSeq(obj, k, Len(obj))

----
(* Recommendation rules *)

Rec(type, priority, message) == [type |-> type, priority |-> priority, message |-> message]

\* this.results.recommendations.push(rec) under a condition
PushIf(recs, cond, rec) == IF cond THEN Append(recs, rec) ELSE recs

ComplexSelectorLimit == 10
ImportantLimit == 5
TotalRulesLimit == 500
DomQueryLimit == 20
JSLinesLimit == 1000
TotalAssetSizeLimit == 5000

evaluateCSSPerformance(recs, analysis) ==
    LET r1 == PushIf(recs, analysis.willChangeUsage < analysis.animationUsage,
                     Rec("CSS", "high", <<1>>))
        r2 == PushIf(r1, analysis.complexSelectors > ComplexSelectorLimit,
                     Rec("CSS", "medium", <<2>>))
        r3 == PushIf(r2, analysis.importantUsage > ImportantLimit,
                     Rec("CSS", "medium", <<3>>))
    IN  PushIf(r3, analysis.totalRules > TotalRulesLimit, Rec("CSS", "low", <<4>>))

evaluateJSPerformance(recs, analysis) ==
    LET r1 == PushIf(recs, analysis.animationFrameUsage = 0 /\ analysis.setTimeoutUsage > 0,
                     Rec("JavaScript", "high", <<5>>))
        r2 == PushIf(r1, analysis.setIntervalUsage > 0, Rec("JavaScript", "medium", <<6>>))
        r3 == PushIf(r2, analysis.domQueries > DomQueryLimit, Rec("JavaScript", "medium", <<7>>))
    IN  PushIf(r3, analysis.totalLines > JSLinesLimit, Rec("JavaScript", "low", <<8>>))

\* Object.entries(analysis.details).forEach: one recommendation per entry
\* whose status is NeedsImprovement; the message names the file and its size
RECURSIVE LargeAssetRecs(_, _)
LargeAssetRecs(recs, details) ==
    IF details = <<>> THEN recs
    ELSE LargeAssetRecs(
            PushIf(recs, Head(details).value.status = NeedsImprovement,
                   Rec("Assets", "medium", <<10, Head(details).key, Head(details).value.size>>)),
            Tail(details))

WebP == <<".", "w", "e", "b", "p">>

\* evaluateAssetPerformance comparing the extension without toLowerCase
evaluateAssetPerformanceMutCase(recs, analysis) ==
    LET r1 == PushIf(recs, analysis.totalSize > TotalAssetSizeLimit * Hundredths,
                     Rec("Assets", "high", <<9>>))
        r2 == LargeAssetRecs(r1, analysis.details)
        hasWebP == \E i \in DOMAIN analysis.details : Extname(analysis.details[i].key) = WebP
    IN  PushIf(r2, ~hasWebP /\ analysis.totalAssets > 0, Rec("Assets", "low", <<11>>))

evaluateAssetPerformance(recs, analysis) ==
    LET r1 == PushIf(recs, analysis.totalSize > TotalAssetSizeLimit * Hundredths,
                     Rec("Assets", "high", <<9>>))
        r2 == LargeAssetRecs(r1, analysis.details)
        hasWebP == \E i \in DOMAIN analysis.details :
                       ToLowerCase(Extname(analysis.details[i].key)) = WebP
    IN  PushIf(r2, ~hasWebP /\ analysis.totalAssets > 0, Rec("Assets", "low", <<11>>))

----
(* Asset inventory *)

\* assets.forEach: the running sum of the sizes
RECURSIVE SumSizes(_)
SumSizes(assets) ==
    IF assets = <<>> THEN 0
    ELSE SumSizes(SubSeq(assets, 1, Len(assets) - 1)) + SizeKB(assets[Len(assets)].bytes)

\* assets.forEach: assetDetails[asset] = {size, type, status}
RECURSIVE AssetDetails(_)
AssetDetails(assets) ==
    IF assets = <<>> THEN <<>>
    ELSE LET asset == assets[Len(assets)]
             sizeKB == SizeKB(asset.bytes)
         IN  SetProperty(AssetDetails(SubSeq(assets, 1, Len(assets) - 1)), asset.name,
                         [size |-> sizeKB,
                          type |-> ToLowerCase(Extname(asset.name)),
                          status |-> evaluateAssetSize(asset.name, sizeKB)])

\* this.results.assetAnalysis of analyzeAssets; Math.round(totalSize * 100) / 100
\* of a sum counted in hundredths
AssetAnalysisOf(assets) ==
    [totalAssets |-> Len(assets),
     totalSize |-> MathRound(SumSizes(assets), 1),
     details |-> AssetDetails(assets)]

----
(* generateReport *)

HighWeight == 15
MediumWeight == 10
LowWeight == 5
FullScore == 100

\* recommendations.forEach(rec => switch (rec.priority) ...), from score
RECURSIVE Deduct(_, _)
Deduct(score, recs) ==
    IF recs = <<>> THEN score
    ELSE LET p == Head(recs).priority IN
         Deduct(IF p = "high" THEN score - HighWeight
                ELSE IF p = "medium" THEN score - MediumWeight
                ELSE IF p = "low" THEN score - LowWeight
                ELSE score,
                Tail(recs))

Max(a, b) == IF a >= b THEN a ELSE b

\* the score without Math.max(0, score)
ScoreMutNoClamp(recs) == Deduct(FullScore, recs)

\* let score = 100; ...; score = Math.max(0, score)
Score(recs) == Max(0, Deduct(FullScore, recs))

ExcellentFrom == 90
GoodFrom == 70
CautionFrom == 50

\* the band with > in place of >=
BandMutStrict(score) ==
    IF score > ExcellentFrom THEN "Excellent"
    ELSE IF score > GoodFrom THEN "Good"
    ELSE IF score > CautionFrom THEN "Caution"
    ELSE "NeedsWork"

\* the line printed under the score
Band(score) ==
    IF score >= ExcellentFrom THEN "Excellent"
    ELSE IF score >= GoodFrom THEN "Good"
    ELSE IF score >= CautionFrom THEN "Caution"
    ELSE "NeedsWork"

\* recommendations.filter(r => r.priority === priority)
RECURSIVE Filter(_, _)
Filter(recs, priority) ==
    IF recs = <<>> THEN <<>>
    ELSE IF Head(recs).priority = priority
         THEN <<Head(recs)>> \o Filter(Tail(recs), priority)
         ELSE Filter(Tail(recs), priority)

PriorityOrder == <<"high", "medium", "low">>

\* the lines printed for one priority: a heading if any entry has it, then
\* `${index + 1}. [${rec.type}] ${rec.message}` per entry
GroupLines(recs, priority) ==
    LET group == Filter(recs, priority) IN
    IF Len(group) > 0
    THEN <<[kind |-> "heading", priority |-> priority]>> \o
         [i \in DOMAIN group |->
             [kind |-> "item", number |-> (i - 1) + 1, rec |-> group[i]]]
    ELSE <<>>

\* the list printed in insertion order, not grouped by priority
RenderedMutUnsorted(recs) ==
    IF Len(recs) > 0
    THEN <<[kind |-> "heading", priority |-> "high"]>> \o
         [i \in DOMAIN recs |-> [kind |-> "item", number |-> (i - 1) + 1, rec |-> recs[i]]]
    ELSE <<[kind |-> "none"]>>

\* the recommendation section of the printed report
Rendered(recs) ==
    IF Len(recs) > 0
    THEN GroupLines(recs, PriorityOrder[1]) \o GroupLines(recs, PriorityOrder[2])
            \o GroupLines(recs, PriorityOrder[3])
    ELSE <<[kind |-> "none"]>>

\* the object saveJSONReport serialises (the timestamp left out)
ReportOf(score, files, css, js, assets, recs) ==
    [score |-> score,
     summary |-> [totalFiles |-> Len(files),
                  totalRecommendations |-> Len(recs),
                  highPriorityIssues |-> Len(Filter(recs, "high")),
                  mediumPriorityIssues |-> Len(Filter(recs, "medium")),
                  lowPriorityIssues |-> Len(Filter(recs, "low"))],
     details |-> [fileAnalysis |-> files, cssAnalysis |-> css, jsAnalysis |-> js,
                  assetAnalysis |-> assets, recommendations |-> recs]]

----
(* The working directory *)

\* the files analyzeFileSizes looks for, in its order
Files == <<IndexHtml, StylesCss, IntegrationTestHtml, TestResponsiveHtml>>

\* byte size of every scanned file that exists: 60 KB, which is Good for
\* index.html and integration-test.html, Warning for styles.css and
\* NeedsImprovement for test-responsive.html
FileBytes == 60 * BytesPerKB

\* What the scan of styles.css yields, reduced to the counts the rules read.
\* The regular-expression scan itself is not modelled: the content of the
\* file is given by the counts it has, each at or just above the limit of
\* the rule that reads it.  Kept are the contents on which none, exactly
\* one, or every rule of evaluateCSSPerformance fires.
CssInputs ==
    {m \in [willChangeUsage : {1}, animationUsage : {1, 2},
            complexSelectors : {ComplexSelectorLimit, ComplexSelectorLimit + 1},
            importantUsage : {ImportantLimit, ImportantLimit + 1},
            totalRules : {TotalRulesLimit, TotalRulesLimit + 1}] :
        Len(evaluateCSSPerformance(<<>>, m)) \in {0, 1, 4}}

\* What the scan of the script blocks of index.html yields, likewise
JsInputs ==
    {m \in [animationFrameUsage : {0, 1}, setTimeoutUsage : {0, 1},
            setIntervalUsage : {0, 1},
            domQueries : {DomQueryLimit, DomQueryLimit + 1},
            totalLines : {JSLinesLimit, JSLinesLimit + 1}] :
        Len(evaluateJSPerformance(<<>>, m)) \in {0, 1, 4}}

\* Names an entry of assets/ may have: an array-index name without an
\* extension, a gif, a webp in upper case, and the name of the prototype
\* accessor
AssetNames ==
    {<<"7">>, <<"b", ".", "g", "i", "f">>, <<"c", ".", "W", "E", "B", "P">>, ProtoKey}

\* Byte sizes an entry may have: 292.97 KB and 2600 KB
AssetBytes == {300000, 2662400}

IsListing(l) == \A i, j \in DOMAIN l : i # j => l[i].name # l[j].name

\* fs.readdirSync('assets'): distinct names, in the order the system lists them
Listings ==
    UNION {{l \in [1..n -> [name : AssetNames, bytes : AssetBytes]] : IsListing(l)}
           : n \in 0..MaxAssets}

\* the optional test pages that exist
TestPages == {{}, {IntegrationTestHtml, TestResponsiveHtml}}

\* A directory: css, html and assets are <<>> when the artifact is missing
Directories ==
    {[css |-> c, html |-> h, assets |-> a, pages |-> t] :
        c \in {<<>>} \cup {<<m>> : m \in CssInputs},
        h \in {<<>>} \cup {<<m>> : m \in JsInputs},
        a \in {<<>>} \cup {<<l>> : l \in Listings},
        t \in TestPages}

\* fs.existsSync(file) for the files analyzeFileSizes looks for
ExistsFile(dir, file) ==
    IF file = StylesCss THEN dir.css # <<>>
    ELSE IF file = IndexHtml THEN dir.html # <<>>
    ELSE file \in dir.pages

----
(* The runner *)

Analyzers == {"analyzeFileSizes", "analyzeCSSPerformance", "analyzeJSPerformance",
              "analyzeAssets"}

\* fileAnalysis[file] = {size, status}: none of the four names is an array
\* index or "__proto__"
SetFile(obj, key, value) ==
    IF \E i \in DOMAIN obj : obj[i].key = key
    THEN [i \in DOMAIN obj |-> IF obj[i].key = key THEN [key |-> key, value |-> value] ELSE obj[i]]
    ELSE Append(obj, [key |-> key, value |-> value])

\* files.forEach over the first n files of the list
RECURSIVE ScanFiles(_, _, _)
ScanFiles(obj, dir, n) ==
    IF n = 0 THEN obj
    ELSE LET before == ScanFiles(obj, dir, n - 1)
             file == Files[n]
             sizeKB == SizeKB(FileBytes)
         IN  IF ExistsFile(dir, file)
             THEN SetFile(before, file, [size |-> sizeKB, status |-> evaluateFileSize(file, sizeKB)])
             ELSE before

\* new PerformanceTestRunner(), not yet run
Constructed ==
    /\ pc = "constructed"
    /\ fileAnalysis = <<>>
    /\ cssAnalysis = <<>>
    /\ jsAnalysis = <<>>
    /\ assetAnalysis = <<>>
    /\ recommendations = <<>>
    /\ console = <<>>
    /\ report = <<>>
    /\ exitCode = <<>>
    /\ failed = <<>>
    /\ runs = 0
    /\ history = <<>>

Init ==
    /\ fs \in Directories
    /\ Constructed
    /\ call = <<>>
    /\ ret = <<>>

\* catch (error) { console.error(...); process.exit(1) }: the control state
\* an exception thrown inside the try block of run() ends in
\* a catch block that reports the error and does not exit
CatchMutSwallow(step) == [pc |-> "done", exitCode |-> <<>>, failed |-> <<step>>]

Catch(step) == [pc |-> "exited", exitCode |-> <<1>>, failed |-> <<step>>]

Throw(step) ==
    /\ pc' = Catch(step).pc
    /\ exitCode' = Catch(step).exitCode
    /\ failed' = Catch(step).failed

\* testRunner.run() is called: on the new runner, or again after it returned
Run ==
    /\ pc \in {"constructed", "done"}
    /\ runs < MaxRuns
    /\ pc' = "files"
    /\ runs' = runs + 1
    /\ UNCHANGED <<fs, fileAnalysis, cssAnalysis, jsAnalysis, assetAnalysis,
                   recommendations, console, report, exitCode, failed, history, call, ret>>

\* analyzeFileSizes(): returns, or fs.statSync throws at the n-th file
AnalyzeFileSizes ==
    /\ pc = "files"
    /\ \/ /\ fileAnalysis' = ScanFiles(fileAnalysis, fs, Len(Files))
          /\ pc' = "css"
          /\ UNCHANGED <<exitCode, failed>>
       \/ \E n \in DOMAIN Files :
          /\ ExistsFile(fs, Files[n])
          /\ fileAnalysis' = ScanFiles(fileAnalysis, fs, n - 1)
          /\ Throw("analyzeFileSizes")
    /\ UNCHANGED <<fs, cssAnalysis, jsAnalysis, assetAnalysis, recommendations,
                   console, report, runs, history, call, ret>>

\* analyzeCSSPerformance without the fs.existsSync test: reading a missing
\* file throws
AnalyzeCSSPerformanceMutNoCheck ==
    /\ pc = "css"
    /\ \/ /\ fs.css # <<>>
          /\ cssAnalysis' = <<fs.css[1]>>
          /\ recommendations' = evaluateCSSPerformance(recommendations, fs.css[1])
          /\ pc' = "js"
          /\ UNCHANGED <<exitCode, failed>>
       \/ /\ Throw("analyzeCSSPerformance")
          /\ UNCHANGED <<cssAnalysis, recommendations>>
    /\ UNCHANGED <<fs, fileAnalysis, jsAnalysis, assetAnalysis, console, report, runs,
                   history, call, ret>>

\* analyzeCSSPerformance(): styles.css is missing, or it is read and
\* evaluated, or fs.readFileSync throws
AnalyzeCSSPerformance ==
    /\ pc = "css"
    /\ \/ /\ fs.css = <<>>
          /\ pc' = "js"
          /\ UNCHANGED <<cssAnalysis, recommendations, exitCode, failed>>
       \/ /\ fs.css # <<>>
          /\ cssAnalysis' = <<fs.css[1]>>
          /\ recommendations' = evaluateCSSPerformance(recommendations, fs.css[1])
          /\ pc' = "js"
          /\ UNCHANGED <<exitCode, failed>>
       \/ /\ fs.css # <<>>
          /\ Throw("analyzeCSSPerformance")
          /\ UNCHANGED <<cssAnalysis, recommendations>>
    /\ UNCHANGED <<fs, fileAnalysis, jsAnalysis, assetAnalysis, console, report, runs,
                   history, call, ret>>

\* analyzeJSPerformance(): index.html is missing, or it is read and
\* evaluated, or fs.readFileSync throws
AnalyzeJSPerformance ==
    /\ pc = "js"
    /\ \/ /\ fs.html = <<>>
          /\ pc' = "assets"
          /\ UNCHANGED <<jsAnalysis, recommendations, exitCode, failed>>
       \/ /\ fs.html # <<>>
          /\ jsAnalysis' = <<fs.html[1]>>
          /\ recommendations' = evaluateJSPerformance(recommendations, fs.html[1])
          /\ pc' = "assets"
          /\ UNCHANGED <<exitCode, failed>>
       \/ /\ fs.html # <<>>
          /\ Throw("analyzeJSPerformance")
          /\ UNCHANGED <<jsAnalysis, recommendations>>
    /\ UNCHANGED <<fs, fileAnalysis, cssAnalysis, assetAnalysis, console, report, runs,
                   history, call, ret>>

\* analyzeAssets(): assets is missing, or it is listed, measured and
\* evaluated, or fs.readdirSync or fs.statSync throws (nothing is assigned
\* before the listing has been walked)
AnalyzeAssets ==
    /\ pc = "assets"
    /\ \/ /\ fs.assets = <<>>
          /\ pc' = "report"
          /\ UNCHANGED <<assetAnalysis, recommendations, exitCode, failed>>
       \/ /\ fs.assets # <<>>
          /\ assetAnalysis' = <<AssetAnalysisOf(fs.assets[1])>>
          /\ recommendations' =
                evaluateAssetPerformance(recommendations, AssetAnalysisOf(fs.assets[1]))
          /\ pc' = "report"
          /\ UNCHANGED <<exitCode, failed>>
       \/ /\ fs.assets # <<>>
          /\ Throw("analyzeAssets")
          /\ UNCHANGED <<assetAnalysis, recommendations>>
    /\ UNCHANGED <<fs, fileAnalysis, cssAnalysis, jsAnalysis, console, report, runs,
                   history, call, ret>>

\* generateReport(): the score, its band and the recommendations are
\* printed, then saveJSONReport writes the report, or fs.writeFileSync throws
GenerateReport ==
    /\ pc = "report"
    /\ console' = <<[score |-> Score(recommendations),
                     band |-> Band(Score(recommendations)),
                     list |-> Rendered(recommendations)]>>
    /\ history' = Append(history, [score |-> Score(recommendations),
                                   recommendations |-> recommendations])
    /\ \/ /\ report' = <<ReportOf(Score(recommendations), fileAnalysis, cssAnalysis,
                                  jsAnalysis, assetAnalysis, recommendations)>>
          /\ pc' = "done"
          /\ UNCHANGED <<exitCode, failed>>
       \/ /\ Throw("saveJSONReport")
          /\ UNCHANGED report
    /\ UNCHANGED <<fs, fileAnalysis, cssAnalysis, jsAnalysis, assetAnalysis,
                   recommendations, runs, call, ret>>

Next ==
    \/ Run
    \/ AnalyzeFileSizes
    \/ AnalyzeCSSPerformance
    \/ AnalyzeJSPerformance
    \/ AnalyzeAssets
    \/ GenerateReport

\* One runner in one directory: run() any number of times up to MaxRuns
Spec == Init /\ [][Next]_vars

----
(* generateReport on any recommendation list *)

\* A directory with none of the artifacts
EmptyDirectory == [css |-> <<>>, html |-> <<>>, assets |-> <<>>, pages |-> {}]

\* Recommendations the evaluate* methods push: one of each priority, and two
\* of the same priority that differ
RecSamples ==
    {Rec("CSS", "high", <<1>>), Rec("CSS", "medium", <<2>>),
     Rec("JavaScript", "medium", <<6>>), Rec("Assets", "low", <<11>>)}

\* The runner after its evaluate* methods have pushed any list of at most
\* MaxRecs recommendations, about to call generateReport
InitReport ==
    /\ fs = EmptyDirectory
    /\ pc = "report"
    /\ fileAnalysis = <<>>
    /\ cssAnalysis = <<>>
    /\ jsAnalysis = <<>>
    /\ assetAnalysis = <<>>
    /\ recommendations \in UNION {[1..n -> RecSamples] : n \in 0..MaxRecs}
    /\ console = <<>>
    /\ report = <<>>
    /\ exitCode = <<>>
    /\ failed = <<>>
    /\ runs = 0
    /\ history = <<>>
    /\ call = <<>>
    /\ ret = <<>>

SpecReport == InitReport /\ [][GenerateReport]_vars

----
(* The size classifiers called directly *)

\* the limits of both tables and both defaults
AllLimits ==
    {FileLimits[f] : f \in DOMAIN FileLimits} \cup {AssetLimits[e] : e \in DOMAIN AssetLimits}
        \cup {DefaultFileLimit, DefaultAssetLimit}

\* sizes, in hundredths of a KB, within Slack of 0, of a limit, or of 1.5
\* times a limit, and their negatives
ClassifySizes ==
    {sign * b + d : sign \in {-1, 1},
                    b \in {0} \cup {l * Hundredths : l \in AllLimits}
                              \cup {(3 * l * Hundredths) \div 2 : l \in AllLimits},
                    d \in -Slack..Slack}

\* artifact names: the four of the table, one without an entry, and two
\* that name properties of Object.prototype
ClassifyFileNames ==
    DOMAIN FileLimits \cup {<<"a", "p", "p", ".", "j", "s">>,
                            <<"c", "o", "n", "s", "t", "r", "u", "c", "t", "o", "r">>, ProtoKey}

\* asset names: every extension of the table, in either case, an extension
\* without an entry, no extension, and a dot file
ClassifyAssetNames ==
    AssetNames \cup
    {<<"a", ".", "p", "n", "g">>, <<"a", ".", "J", "p", "g">>,
     <<"a", ".", "j", "p", "e", "g">>, <<"a", ".", "s", "v", "g">>,
     <<".", "g", "i", "f">>, <<"a", ".", "t", "a", "r", ".", "g", "i", "f">>}

InitClassify ==
    /\ fs = EmptyDirectory
    /\ Constructed
    /\ call \in {<<[fn |-> "evaluateFileSize", name |-> n, size |-> sz]>> :
                    n \in ClassifyFileNames, sz \in ClassifySizes}
            \cup {<<[fn |-> "evaluateAssetSize", name |-> n, size |-> sz]>> :
                    n \in ClassifyAssetNames, sz \in ClassifySizes}
    /\ ret = <<>>

EvaluateFileSizeCall ==
    /\ ret = <<>>
    /\ call # <<>>
    /\ call[1].fn = "evaluateFileSize"
    /\ ret' = <<evaluateFileSize(call[1].name, call[1].size)>>
    /\ UNCHANGED <<fs, pc, fileAnalysis, cssAnalysis, jsAnalysis, assetAnalysis,
                   recommendations, console, report, exitCode, failed, runs, history, call>>

EvaluateAssetSizeCall ==
    /\ ret = <<>>
    /\ call # <<>>
    /\ call[1].fn = "evaluateAssetSize"
    /\ ret' = <<evaluateAssetSize(call[1].name, call[1].size)>>
    /\ UNCHANGED <<fs, pc, fileAnalysis, cssAnalysis, jsAnalysis, assetAnalysis,
                   recommendations, console, report, exitCode, failed, runs, history, call>>

SpecClassify == InitClassify /\ [][EvaluateFileSizeCall \/ EvaluateAssetSizeCall]_vars

----
(* Properties of the size classifiers, under SpecClassify *)

\* the threshold the specification gives a call: the entry of its table for
\* the category (the artifact name, or the lower-cased extension), else the
\* default of its table
ThresholdOf(c) ==
    IF c.fn = "evaluateFileSize"
    THEN IF c.name \in DOMAIN FileLimits THEN FileLimits[c.name] ELSE DefaultFileLimit
    ELSE LET ext == ToLowerCase(Extname(c.name)) IN
         IF ext \in DOMAIN AssetLimits THEN AssetLimits[ext] ELSE DefaultAssetLimit

\* the verdict of the decision rule for a size s (hundredths) and threshold t
RuleVerdict(s, t) ==
    IF s <= t * Hundredths THEN Good
    ELSE IF 2 * s <= 3 * t * Hundredths THEN Warning
    ELSE NeedsImprovement

\* C1: for every category and every non-negative size the classifier returns
\* Good up to the threshold, Warning up to 1.5 times the threshold and
\* NeedsImprovement above, the threshold being the table entry of the
\* category or else the default (50 for artifacts, 500 for assets).
C1_ClassifyByThreshold ==
    (ret # <<>> /\ call[1].size >= 0) =>
        ret[1] = RuleVerdict(call[1].size, ThresholdOf(call[1]))

\* C2: a call with a negative size fails with InvalidInput for every
\* category: it never returns one of the three verdicts.
C2_NegativeIsInvalidInput ==
    (ret # <<>> /\ call[1].size < 0) => ret[1] \notin Verdicts

----
(* Properties of generateReport, under SpecReport *)

\* the recommendations the last generateReport read
LastRecs == history[Len(history)].recommendations

CountOf(recs, priority) == Cardinality({i \in DOMAIN recs : recs[i].priority = priority})

RawScore(recs) ==
    FullScore - HighWeight * CountOf(recs, "high") - MediumWeight * CountOf(recs, "medium")
              - LowWeight * CountOf(recs, "low")

TenHigh == [i \in 1..10 |-> Rec("CSS", "high", <<1>>)]

\* C3: the score is max(0, 100 - 15 H - 10 M - 5 L) for the H high, M medium
\* and L low recommendations of the list: an integer in 0..100, 100 for the
\* empty list, 0 for ten high recommendations; it is the score printed and
\* the score written to the report.
C3_ScoreFormula ==
    /\ Score(TenHigh) = 0
    /\ console # <<>> =>
        /\ console[1].score = IF RawScore(LastRecs) < 0 THEN 0 ELSE RawScore(LastRecs)
        /\ console[1].score \in 0..FullScore
        /\ (LastRecs = <<>> => console[1].score = FullScore)
        /\ (pc = "done" => report[1].score = console[1].score)

C3_Witness ==
    /\ pc = "done"
    /\ RawScore(LastRecs) < 0
    /\ report[1].score = 0

IsItem(line) == line.kind = "item"
IsHigh(r) == r.priority = "high"
IsMedium(r) == r.priority = "medium"
IsLow(r) == r.priority = "low"
ItemIsHigh(line) == IsHigh(line.rec)
ItemIsMedium(line) == IsMedium(line.rec)
ItemIsLow(line) == IsLow(line.rec)
RecsOf(lines) == [i \in DOMAIN lines |-> lines[i].rec]
Rank(priority) == CHOOSE k \in DOMAIN PriorityOrder : PriorityOrder[k] = priority

\* C9: the printed list is a stable partition of the recommendations by
\* priority: high, then medium, then low; within a priority the entries
\* keep their order and are numbered from 1; every one is printed once.
C9_StablePartition ==
    console # <<>> =>
        LET list == console[1].list
            items == SelectSeq(list, IsItem)
        IN  /\ Len(items) = Len(LastRecs)
            /\ \A i, j \in DOMAIN items :
                   i < j => Rank(items[i].rec.priority) <= Rank(items[j].rec.priority)
            /\ RecsOf(SelectSeq(items, ItemIsHigh)) = SelectSeq(LastRecs, IsHigh)
            /\ RecsOf(SelectSeq(items, ItemIsMedium)) = SelectSeq(LastRecs, IsMedium)
            /\ RecsOf(SelectSeq(items, ItemIsLow)) = SelectSeq(LastRecs, IsLow)
            /\ \A i \in DOMAIN items :
                   items[i].number =
                       1 + Cardinality({j \in 1..(i - 1) :
                                           items[j].rec.priority = items[i].rec.priority})

\* a low entry was pushed before a medium one, and that before a high one,
\* and two medium entries are told apart
C9_Witness ==
    /\ console # <<>>
    /\ \E i, j, k, l \in DOMAIN LastRecs :
          /\ i < j /\ j < k /\ k < l
          /\ LastRecs[i].priority = "low"
          /\ LastRecs[j].priority = "medium"
          /\ LastRecs[k].priority = "medium"
          /\ LastRecs[j] # LastRecs[k]
          /\ LastRecs[l].priority = "high"

\* C10: the band printed is Excellent from 90, Good from 70 to 89, Caution
\* from 50 to 69 and NeedsWork below 50; no recommendation gives Excellent,
\* two high and one medium give 60 and Caution.
C10_Bands ==
    console # <<>> =>
        LET score == console[1].score
            band == console[1].band
        IN  /\ (score >= 90) = (band = "Excellent")
            /\ (score >= 70 /\ score < 90) = (band = "Good")
            /\ (score >= 50 /\ score < 70) = (band = "Caution")
            /\ (score < 50) = (band = "NeedsWork")
            /\ (LastRecs = <<>> => band = "Excellent")
            /\ (/\ Len(LastRecs) = 3
                /\ CountOf(LastRecs, "high") = 2
                /\ CountOf(LastRecs, "medium") = 1) => (score = 60 /\ band = "Caution")

C10_Witness ==
    /\ console # <<>>
    /\ Len(LastRecs) = 3
    /\ CountOf(LastRecs, "high") = 2
    /\ CountOf(LastRecs, "medium") = 1
    /\ console[1].band = "Caution"

----
(* Properties of run(), under Spec *)

AllPresent == fs.css # <<>> /\ fs.html # <<>> /\ fs.assets # <<>>

IfRule(cond, rec) == IF cond THEN <<rec>> ELSE <<>>

IsOversized(entry) == entry.value.status = NeedsImprovement

\* the recommendations of rules 1 to 11 on the metrics css and js and the
\* inventory inv, in rule order
RuleRecs(css, js, inv) ==
    LET oversized == SelectSeq(inv.details, IsOversized) IN
       IfRule(css.willChangeUsage < css.animationUsage, Rec("CSS", "high", <<1>>))
    \o IfRule(css.complexSelectors > 10, Rec("CSS", "medium", <<2>>))
    \o IfRule(css.importantUsage > 5, Rec("CSS", "medium", <<3>>))
    \o IfRule(css.totalRules > 500, Rec("CSS", "low", <<4>>))
    \o IfRule(js.animationFrameUsage = 0 /\ js.setTimeoutUsage > 0,
              Rec("JavaScript", "high", <<5>>))
    \o IfRule(js.setIntervalUsage > 0, Rec("JavaScript", "medium", <<6>>))
    \o IfRule(js.domQueries > 20, Rec("JavaScript", "medium", <<7>>))
    \o IfRule(js.totalLines > 1000, Rec("JavaScript", "low", <<8>>))
    \o IfRule(inv.totalSize > 5000 * Hundredths, Rec("Assets", "high", <<9>>))
    \o [i \in DOMAIN oversized |->
           Rec("Assets", "medium", <<10, oversized[i].key, oversized[i].value.size>>)]
    \o IfRule((\A i \in DOMAIN inv.details : inv.details[i].value.type # WebP)
                  /\ inv.totalAssets > 0,
              Rec("Assets", "low", <<11>>))

C5_NoCrossRunState ==
    \A i \in DOMAIN history : history[i] = history[1]

NoRecOfType(type) == \A i \in DOMAIN recommendations : recommendations[i].type # type

\* C6: a missing artifact does not fail the run of a new runner: its analyzer
\* returns without metrics and without recommendations of its category, the
\* other analyzers still run, and the report is written.
C6_MissingArtifact ==
    /\ failed = <<"analyzeCSSPerformance">> => fs.css # <<>>
    /\ failed = <<"analyzeJSPerformance">> => fs.html # <<>>
    /\ failed = <<"analyzeAssets">> => fs.assets # <<>>
    /\ failed = <<"analyzeFileSizes">> => \E n \in DOMAIN Files : ExistsFile(fs, Files[n])
    /\ (runs = 1 /\ pc \in {"js", "assets", "report", "done"}) =>
            IF fs.css = <<>> THEN cssAnalysis = <<>> /\ NoRecOfType("CSS")
            ELSE cssAnalysis # <<>>
    /\ (runs = 1 /\ pc \in {"assets", "report", "done"}) =>
            IF fs.html = <<>> THEN jsAnalysis = <<>> /\ NoRecOfType("JavaScript")
            ELSE jsAnalysis # <<>>
    /\ (runs = 1 /\ pc \in {"report", "done"}) =>
            IF fs.assets = <<>> THEN assetAnalysis = <<>> /\ NoRecOfType("Assets")
            ELSE assetAnalysis # <<>>
    /\ (runs = 1 /\ pc = "done") =>
            /\ report # <<>>
            /\ exitCode = <<>>
            /\ report[1].details.cssAnalysis = cssAnalysis
            /\ report[1].details.jsAnalysis = jsAnalysis
            /\ report[1].details.assetAnalysis = assetAnalysis
            /\ report[1].details.recommendations = recommendations
            /\ \A n \in DOMAIN Files :
                   ExistsFile(fs, Files[n]) =
                       (\E i \in DOMAIN fileAnalysis : fileAnalysis[i].key = Files[n])

\* styles.css and assets are missing, index.html is there and gives a
\* recommendation, and the report is written
C6_Witness ==
    /\ runs = 1
    /\ pc = "done"
    /\ fs.css = <<>>
    /\ fs.assets = <<>>
    /\ jsAnalysis # <<>>
    /\ report # <<>>
    /\ report[1].details.cssAnalysis = <<>>
    /\ report[1].details.recommendations # <<>>

\* C7: when an analyzer throws during run, the error is reported and the
\* process exits with code 1, and that run neither prints nor writes a
\* report: the report on disk, if any, is the one of the run before.
C7_FailedAnalyzerNoReport ==
    (failed # <<>> /\ failed[1] \in Analyzers) =>
        /\ pc = "exited"
        /\ exitCode = <<1>>
        /\ Len(history) = runs - 1
        /\ IF runs = 1 THEN report = <<>> /\ console = <<>>
           ELSE /\ report[1].score = history[runs - 1].score
                /\ report[1].details.recommendations = history[runs - 1].recommendations
                /\ console[1].score = history[runs - 1].score

\* the last analyzer throws after the earlier ones pushed recommendations
C7_Witness ==
    /\ failed = <<"analyzeAssets">>
    /\ exitCode = <<1>>
    /\ runs = 1
    /\ recommendations # <<>>
    /\ report = <<>>

RECURSIVE SumOfRecords(_)
SumOfRecords(details) ==
    IF details = <<>> THEN 0 ELSE Head(details).value.size + SumOfRecords(Tail(details))

\* C8: in every inventory totalCount is the number of records and
\* totalSizeKB the sum of the sizes of the records, rounded to 2 decimals;
\* an empty listing gives no records, totalCount 0 and totalSizeKB 0.
C8_InventoryTotals ==
    assetAnalysis # <<>> =>
        LET inv == assetAnalysis[1] IN
        /\ inv.totalAssets = Len(inv.details)
        /\ inv.totalSize = MathRound(SumOfRecords(inv.details), 1)
        /\ (fs.assets[1] = <<>> =>
                inv.details = <<>> /\ inv.totalAssets = 0 /\ inv.totalSize = 0)

====
